---- MODULE Spec2Model ----
(***************************************************************************)
(* The GSU importer of cl/corpus_importer/management/commands/             *)
(* georgia_state_university.py: the row-to-record lookup in the FJC        *)
(* integrated database (lookup_row, make_party_q) under its driver         *)
(* update_csv_with_idb_lookups, and the docket entry filter (filter_des)   *)
(* under its driver download_documents.                                    *)
(*                                                                         *)
(* A Python str is a sequence of one-character strings, so that lower(),   *)
(* split(), slicing and the icontains / istartswith / iexact lookups are   *)
(* computed and not assumed.                                               *)
(***************************************************************************)
EXTENDS Integers, Sequences, FiniteSets, TLC

\* ------------------------------------------------------------------ bounds

\* How many same-named records (they differ in pk and date_filed) the store
\* may hold beside the single ones.
MaxCopies == 5

\* How many docket entries a docket may hold on the day of a row.
MaxDes == 3

\* ------------------------------------------------------------- Python str

UpperChars == <<"A","B","C","D","E","F","G","H","I","J","K","L","M",
                "N","O","P","Q","R","S","T","U","V","W","X","Y","Z">>

LowerChars == <<"a","b","c","d","e","f","g","h","i","j","k","l","m",
                "n","o","p","q","r","s","t","u","v","w","x","y","z">>

UpperSet == {UpperChars[i] : i \in 1..Len(UpperChars)}

ToLower ==
    [c \in UpperSet |-> LowerChars[CHOOSE i \in 1..Len(UpperChars) : UpperChars[i] = c]]

LowerChar(c) == IF c \in UpperSet THEN ToLower[c] ELSE c

\* str.lower()
lower(s) == [i \in 1..Len(s) |-> LowerChar(s[i])]

MinOf(S) == CHOOSE x \in S : \A y \in S : x <= y

\* str.find(sep) + 1: the first place sep occurs in s, 0 when it does not.
find(s, sep) ==
    LET at == {i \in 1..(Len(s) - Len(sep) + 1) : SubSeq(s, i, i + Len(sep) - 1) = sep}
    IN  IF at = {} THEN 0 ELSE MinOf(at)

\* s[:n]
truncate(s, n) == SubSeq(s, 1, IF Len(s) < n THEN Len(s) ELSE n)

startswith(s, prefix) ==
    /\ Len(prefix) <= Len(s)
    /\ SubSeq(s, 1, Len(prefix)) = prefix

endswith(s, suffix) ==
    /\ Len(suffix) <= Len(s)
    /\ SubSeq(s, Len(s) - Len(suffix) + 1, Len(s)) = suffix

\* sub in s
contains(s, sub) == sub = <<>> \/ find(s, sub) # 0

\* str.split(sep, maxsplit)
RECURSIVE split_sep(_, _, _)
split_sep(s, sep, maxsplit) ==
    LET i == find(s, sep)
    IN  IF maxsplit = 0 \/ i = 0
        THEN <<s>>
        ELSE <<SubSeq(s, 1, i - 1)>>
             \o split_sep(SubSeq(s, i + Len(sep), Len(s)), sep, maxsplit - 1)

IsSpace(c) == c \in {" ", "\t", "\n"}

\* str.split(): the maximal runs of non-whitespace characters.
RECURSIVE split_ws(_, _, _)
split_ws(s, i, cur) ==
    IF i > Len(s)
    THEN IF cur = <<>> THEN <<>> ELSE <<cur>>
    ELSE IF IsSpace(s[i])
         THEN (IF cur = <<>> THEN <<>> ELSE <<cur>>) \o split_ws(s, i + 1, <<>>)
         ELSE split_ws(s, i + 1, Append(cur, s[i]))

split(s) == split_ws(s, 1, <<>>)

\* seq[sl.start:sl.stop] for a slice of step 1; slice(None, n) has start 0.
py_slice(seq, sl) ==
    SubSeq(seq, sl.start + 1, IF Len(seq) < sl.stop THEN Len(seq) ELSE sl.stop)

\* ------------------------------------------------------------------ dates

Digits == <<"0","1","2","3","4","5","6","7","8","9">>

IsDigit(c) == \E i \in 1..10 : Digits[i] = c

DigitValue(c) == (CHOOSE i \in 1..10 : Digits[i] = c) - 1

RECURSIVE ParseInt(_)
ParseInt(s) ==
    IF s = <<>> THEN 0
    ELSE 10 * ParseInt(SubSeq(s, 1, Len(s) - 1)) + DigitValue(s[Len(s)])

AllDigits(s) == \A i \in 1..Len(s) : IsDigit(s[i])

IsLeap(y) == (y % 4 = 0) /\ ((y % 100 # 0) \/ (y % 400 = 0))

DaysInMonth(y, m) ==
    IF m = 2 THEN (IF IsLeap(y) THEN 29 ELSE 28)
    ELSE IF m \in {4, 6, 9, 11} THEN 30 ELSE 31

RECURSIVE DaysBeforeMonth(_, _)
DaysBeforeMonth(y, m) ==
    IF m = 1 THEN 0 ELSE DaysBeforeMonth(y, m - 1) + DaysInMonth(y, m - 1)

\* date.toordinal(): the proleptic Gregorian day number.
toordinal(d) ==
    LET y == d.year - 1
    IN  y * 365 + (y \div 4) - (y \div 100) + (y \div 400)
        + DaysBeforeMonth(d.year, d.month) + d.day

\* datetime.strptime(s, '%m/%d/%Y'): the fields of s, or the ValueError it
\* raises when s does not match the format or names no calendar day.
strptime_fields(s) == split_sep(s, <<"/">>, 2)

strptime_ok(s) ==
    LET f == strptime_fields(s)
    IN  /\ Len(f) = 3
        /\ Len(f[1]) \in {1, 2} /\ AllDigits(f[1])
        /\ Len(f[2]) \in {1, 2} /\ AllDigits(f[2])
        /\ Len(f[3]) = 4 /\ AllDigits(f[3])
        /\ ParseInt(f[1]) \in 1..12
        /\ ParseInt(f[3]) >= 1
        /\ ParseInt(f[2]) \in 1..DaysInMonth(ParseInt(f[3]), ParseInt(f[1]))

strptime(s) ==
    LET f == strptime_fields(s)
    IN  [year |-> ParseInt(f[3]), month |-> ParseInt(f[1]), day |-> ParseInt(f[2])]

Date(y, m, d) == [year |-> y, month |-> m, day |-> d]

\* ------------------------------------------------- the store and the rows

CV_2017 == "CV_2017"
OTHER_DATASET == "CR_2017"
FEDERAL_DISTRICT == "FD"
FEDERAL_BANKRUPTCY == "FB"

Court(fjc_court_id, jurisdiction) ==
    [fjc_court_id |-> fjc_court_id, jurisdiction |-> jurisdiction]

\* A row of FjcIntegratedDatabase.
Fjc(pk, source, district, filed, p, d) ==
    [pk |-> pk, dataset_source |-> source, district |-> district,
     date_filed |-> filed, plaintiff |-> p, defendant |-> d]

CourtA == Court(<<"0","1">>, FEDERAL_DISTRICT)

\* Records of distinct names, inside the candidate pool of a row of court
\* "01" dated 06/01/2015 (the fourth on its first day, the fifth on its last).
SingleRecords == {
    Fjc(1, CV_2017, CourtA, Date(2014, 3, 1), <<"S","M","I","T","H">>, <<"J","O","N","E","S">>),
    Fjc(2, CV_2017, CourtA, Date(2013, 7, 9), <<"J","O","H","N"," ","S","M","I","T","H"," ","J","R">>, <<"A","C","M","E"," ","A","S","S","O","C","I","A","T","I","O","N">>),
    Fjc(3, CV_2017, CourtA, Date(2012, 2, 29), <<"S","M","I","T","H",","," ","J">>, <<"A","C","M","E"," ","I","N","C">>),
    Fjc(4, CV_2017, CourtA, Date(2010, 6, 2),
        <<"I","N","T","E","R","N","A","T","I","O","N","A","L"," ","B","R","O","T","H","E","R","H","O","O","D"," ","O","F"," ","E">>, <<"J","O","N","E","S">>),
    Fjc(5, CV_2017, CourtA, Date(2015, 6, 1), <<"D","O","E"," ","A","D","M","I","N","I","S","T","R","A","T","I","O","N">>, <<"R","O","E">>) }

\* Records named as the first one, each outside that candidate pool by one
\* condition of the query: a bankruptcy court, filed a day more than 365 * 5
\* days before, filed a day after, another court, another dataset.
OutsideRecords == {
    Fjc(6, CV_2017, Court(<<"0","1">>, FEDERAL_BANKRUPTCY), Date(2015, 1, 5),
        <<"S","M","I","T","H">>, <<"J","O","N","E","S">>),
    Fjc(7, CV_2017, CourtA, Date(2010, 6, 1), <<"S","M","I","T","H">>, <<"J","O","N","E","S">>),
    Fjc(8, CV_2017, CourtA, Date(2015, 6, 2), <<"S","M","I","T","H">>, <<"J","O","N","E","S">>),
    Fjc(9, CV_2017, Court(<<"0","2">>, FEDERAL_DISTRICT), Date(2014, 3, 1),
        <<"S","M","I","T","H">>, <<"J","O","N","E","S">>),
    Fjc(10, OTHER_DATASET, CourtA, Date(2014, 3, 1), <<"S","M","I","T","H">>, <<"J","O","N","E","S">>) }

CopyDates == <<Date(2013, 1, 1), Date(2014, 3, 1), Date(2014, 3, 1),
               Date(2012, 1, 1), Date(2011, 1, 1)>>

\* The i-th of the same-named records.
CopyRecord(i) ==
    Fjc(100 + i, CV_2017, CourtA, CopyDates[((i - 1) % Len(CopyDates)) + 1],
        <<"S","M","I","T","H"," ","E","T"," ","A","L">>, <<"J","O","N","E","S"," ","C","O","R","P">>)

OutsideChoices == {{}, OutsideRecords}

Stores ==
    {singles \cup outside \cup {CopyRecord(i) : i \in 1..k} :
        singles \in SUBSET SingleRecords, outside \in OutsideChoices,
        k \in 0..MaxCopies}

CaseNames == {
    <<"S","m","i","t","h"," ","v","."," ","J","o","n","e","s">>,
    <<"J","o","h","n"," ","S","m","i","t","h"," ","v","."," ","A","c","m","e"," ","A","s","s","n",".">>,
    <<"D","o","e"," ","A","d","m","i","n","."," ","v","."," ","R","o","e">>,
    <<"I","n","t","e","r","n","a","t","i","o","n","a","l"," ","B","r","o","t","h","e","r","h","o","o","d"," ","o","f"," ","E","l","e","c","t","r","i","c","a","l"," ","W","o","r","k","e","r","s"," ","v","."," ","J","o","n","e","s">>,
    <<"S","m","i","t","h"," ","a","n","d"," ","J","o","n","e","s">>,
    <<"S","m","i","t","h"," ","v","."," ","J","o","n","e","s"," ","v","."," ","A","c","m","e">>,
    <<"S","m","i","t","h"," ","v","."," ","J","o","n","e","s"," ","C","o","r","p"," ","v","."," ","A","c","m","e">> }

GoodDate == <<"0","6","/","0","1","/","2","0","1","5">>

\* June has 30 days: strptime raises ValueError.
BadDate == <<"6","/","3","1","/","2","0","1","5">>

\* A row of the CSV, as csv.DictReader yields it.
Row(name, date, ao) ==
    [k \in {"Case Name", "Date", "AO ID"} |->
        IF k = "Case Name" THEN name ELSE IF k = "Date" THEN date ELSE ao]

Rows == {Row(n, GoodDate, <<"0","1">>) : n \in CaseNames}
        \cup {Row(<<"S","m","i","t","h"," ","v","."," ","J","o","n","e","s">>, BadDate, <<"0","1">>)}

\* ------------------------------------------------------------ make_party_q

\* reporters_db's CASE_NAME_ABBREVIATIONS in a CaseInsensitiveDict: the keys
\* compare lowercased.
AbbreviationKeys == { <<"a","s","s","n",".">>, <<"a","d","m","i","n",".">> }

CASE_NAME_IABBREVIATIONS(word) ==
    IF lower(word) = <<"a","s","s","n",".">> THEN << <<"A","s","s","o","c","i","a","t","i","o","n">> >>
    ELSE IF lower(word) = <<"a","d","m","i","n",".">> THEN << <<"A","d","m","i","n","i","s","t","r","a","t","i","v","e">>, <<"A","d","m","i","n","i","s","t","r","a","t","i","o","n">> >>
    ELSE <<>>

in_abbreviations(word) == lower(word) \in AbbreviationKeys

\* Q(**{'<field>__<lookup>': value})
Lookup(field, lookup, value) == [field |-> field, lookup |-> lookup, value |-> value]

\* word_q, were the abbreviations not looked up.
word_q_word_only(word, lookup_field) ==
    << Lookup(lookup_field, "icontains", word) >>

\* The q of one word: the word's own test, ORed with one test per
\* abbreviation when the word ends with '.' and is in the table. A Q of ORed
\* tests is the sequence of them.
word_q(word, lookup_field) ==
    IF endswith(word, <<".">>) /\ in_abbreviations(word)
    THEN << Lookup(lookup_field, "icontains", word) >>
         \o [i \in 1..Len(CASE_NAME_IABBREVIATIONS(word)) |->
                Lookup(lookup_field, "icontains", CASE_NAME_IABBREVIATIONS(word)[i])]
    ELSE << Lookup(lookup_field, "icontains", word) >>

\* make_party_q, were a slice the party's words do not fill a reason to
\* match no record (the Q of one word with no test).
make_party_q_full_slice_only(party, lookup_field, term_slice) ==
    LET words == py_slice(split(party), term_slice)
    IN  IF Len(words) < term_slice.stop - term_slice.start
        THEN << <<>> >>
        ELSE [i \in 1..Len(words) |-> word_q(words[i], lookup_field)]

\* new_q after the loop: the words' q's ANDed, as the sequence of them; the
\* empty Q() when the slice holds no word.
make_party_q(party, lookup_field, term_slice) ==
    LET words == py_slice(split(party), term_slice)
    IN  [i \in 1..Len(words) |-> word_q(words[i], lookup_field)]

slice(start, stop) == [start |-> start, stop |-> stop]

\* --------------------------------------------------------- the ORM's filter

\* eval_lookup, were iexact the case-sensitive exact.
eval_lookup_exact(rec, l) ==
    LET have == lower(rec[l.field])
        want == lower(l.value)
    IN  CASE l.lookup = "iexact" -> rec[l.field] = l.value
          [] l.lookup = "istartswith" -> startswith(have, want)
          [] l.lookup = "icontains" -> contains(have, want)

\* One field lookup on one record; the i-lookups compare case-insensitively.
eval_lookup(rec, l) ==
    LET have == lower(rec[l.field])
        want == lower(l.value)
    IN  CASE l.lookup = "iexact" -> have = want
          [] l.lookup = "istartswith" -> startswith(have, want)
          [] l.lookup = "icontains" -> contains(have, want)

\* A Q of make_party_q on one record; the empty Q() holds of every record.
eval_q(rec, q) ==
    \A i \in 1..Len(q) : \E j \in 1..Len(q[i]) : eval_lookup(rec, q[i][j])

\* queryset.filter(*args, **kwargs)
filter(queryset, args, kwargs) ==
    {rec \in queryset :
        /\ \A i \in 1..Len(args) : eval_q(rec, args[i])
        /\ \A i \in 1..Len(kwargs) : eval_lookup(rec, kwargs[i])}

FiveYears == 365 * 5

\* orig_query of lookup_row, as the set of its records.
orig_query(records, ao_id, opinion) ==
    {rec \in records :
        /\ rec.dataset_source = CV_2017
        /\ rec.district.fjc_court_id = ao_id
        /\ toordinal(rec.date_filed) <= toordinal(opinion)
        /\ toordinal(rec.date_filed) >= toordinal(opinion) - FiveYears
        /\ rec.district.jurisdiction # FEDERAL_BANKRUPTCY}

\* first_by_date_filed, were the order order_by('date_filed').
first_by_date_filed_ascending(queryset) ==
    {rec \in queryset :
        \A other \in queryset :
            toordinal(other.date_filed) >= toordinal(rec.date_filed)}

\* order_by('-date_filed') then [0]: a record no other of the queryset was
\* filed after; the order among records filed the same day is the database's.
first_by_date_filed(queryset) ==
    {rec \in queryset :
        \A other \in queryset :
            toordinal(other.date_filed) <= toordinal(rec.date_filed)}

TruncateAt == 30

FilterTuple(args, kwargs) == [args |-> args, kwargs |-> kwargs]

make_filter_tuples(p, d) == <<
    FilterTuple(<<>>,
        << Lookup("plaintiff", "iexact", truncate(p, TruncateAt)),
           Lookup("defendant", "iexact", truncate(d, TruncateAt)) >>),
    FilterTuple(<<>>,
        << Lookup("plaintiff", "istartswith", truncate(p, TruncateAt)),
           Lookup("defendant", "istartswith", truncate(d, TruncateAt)) >>),
    FilterTuple(
        << make_party_q(d, "defendant", slice(0, 3)),
           make_party_q(p, "plaintiff", slice(0, 3)) >>, <<>>),
    FilterTuple(
        << make_party_q(d, "defendant", slice(0, 1)),
           make_party_q(p, "plaintiff", slice(0, 1)) >>, <<>>),
    FilterTuple(
        << make_party_q(p, "plaintiff", slice(1, 2)),
           make_party_q(d, "defendant", slice(0, 1)) >>, <<>>) >>

\* ------------------------------------------------------------------ state

VARIABLES
    task,           \* options['task']
    store,          \* the rows of FjcIntegratedDatabase
    pc,             \* where the command is: in the driver's loop or in a callee
    row,            \* the CSV row being done
    plaintiff,      \* lookup_row's locals
    defendant,
    opinion_date,
    filter_tuples,
    stage,          \* the index of the filter tuple the for loop is at
    queries,        \* the queries lookup_row has sent to the store for this row
    log,            \* the log lines since the driver's "Doing row" line
    result,         \* what lookup_row returned: {} for None, else {record}
    exc,            \* the exception that ended the command, "" if none
    writer,         \* the fjc_id written for the row just done: {} if none
    des,            \* download_documents: the docket entries of the row's day
    de_i,           \* filter_des: the index in des of the entry the loop is at
    good_des,       \* the entries kept, in the order appended
    queued          \* the recap documents tagged or queued for the row just done

docs_vars == <<des, de_i, good_des, queued>>

lookup_vars == <<store, row, plaintiff, defendant, opinion_date, filter_tuples,
                 stage, queries, result, writer>>

vars == <<task, pc, log, exc, lookup_vars, docs_vars>>

NoRow == Row(<<>>, <<>>, <<>>)
NoDate == Date(1, 1, 1)

Line(level, message) == [level |-> level, message |-> message]

\* ------------------------------------------- update_csv_with_idb_lookups

\* The locals of lookup_row, gone when it has returned.
ClearLocals ==
    /\ plaintiff' = <<>>
    /\ defendant' = <<>>
    /\ opinion_date' = NoDate
    /\ filter_tuples' = <<>>
    /\ stage' = 0

\* for i, row in enumerate(reader): the next row of the file (offset and
\* limit are 0), logged, and lookup_row called with it.
update_csv_read_row ==
    /\ task = "lookup_in_idb"
    /\ pc = "reader"
    /\ \E r \in Rows : row' = r
    /\ log' = << Line("info", "Doing row with contents") >>
    /\ queries' = <<>>
    /\ result' = {}
    /\ writer' = {}
    /\ pc' = "lookup_row"
    /\ UNCHANGED <<task, store, plaintiff, defendant, opinion_date,
                   filter_tuples, stage, exc, docs_vars>>

\* The file has no more rows.
update_csv_end_of_file ==
    /\ task = "lookup_in_idb"
    /\ pc = "reader"
    /\ pc' = "done"
    /\ UNCHANGED <<task, log, exc, lookup_vars, docs_vars>>

\* lookup_row has returned: the result is logged, the row updated with it
\* when it is not None, and written.
update_csv_write_row ==
    /\ pc = "returned"
    /\ log' = Append(log, Line("info", "result"))
    /\ writer' = {rec.pk : rec \in result}
    /\ row' = NoRow
    /\ queries' = <<>>
    /\ result' = {}
    /\ ClearLocals
    /\ pc' = "reader"
    /\ UNCHANGED <<task, store, exc, docs_vars>>

\* -------------------------------------------------------------- lookup_row

\* plaintiff, defendant = <parts>: the unpacking of a list into two names
\* raises ValueError unless the list holds exactly two items.
unpack_two(parts) == IF Len(parts) = 2 THEN "" ELSE "ValueError"

\* The except clauses of the try around the split, in order: the line logged
\* for an exception they catch.
split_handler(raised) ==
    IF raised = "IndexError"
    THEN << Line("warn", "Unable to find ' v. ' in case name.") >>
    ELSE IF raised = "ValueError"
    THEN << Line("warn", "Got multiple ' v. ' in the case name.") >>
    ELSE <<>>

case_name_parts(r) == split_sep(lower(r["Case Name"]), <<" ","v","."," ">>, 1)

\* lookup_row up to its for loop: the split of the case name, the date, the
\* query and the filter tuples (make_party_q sends nothing to the store).
lookup_row ==
    /\ pc = "lookup_row"
    /\ LET parts == case_name_parts(row)
           raised == unpack_two(parts)
       IN  IF raised # ""
           THEN /\ log' = log \o split_handler(raised)
                /\ result' = {}
                /\ pc' = "returned"
                /\ UNCHANGED <<exc, plaintiff, defendant, opinion_date,
                               filter_tuples, stage>>
           ELSE IF ~strptime_ok(row["Date"])
           THEN /\ exc' = "ValueError"
                /\ pc' = "raised"
                /\ UNCHANGED <<log, result, plaintiff, defendant, opinion_date,
                               filter_tuples, stage>>
           ELSE /\ plaintiff' = parts[1]
                /\ defendant' = parts[2]
                /\ opinion_date' = strptime(row["Date"])
                /\ filter_tuples' = make_filter_tuples(parts[1], parts[2])
                /\ stage' = 1
                /\ pc' = "loop"
                /\ UNCHANGED <<log, result, exc>>
    /\ UNCHANGED <<task, store, row, queries, writer, docs_vars>>

Query(n, kind) == [stage |-> n, kind |-> kind]

\* stage_results, were each stage to filter what the stages before it left.
RECURSIVE stage_results_narrowing(_, _, _, _, _)
stage_results_narrowing(records, r, opinion, tuples, n) ==
    filter(IF n = 1 THEN orig_query(records, r["AO ID"], opinion)
           ELSE stage_results_narrowing(records, r, opinion, tuples, n - 1),
           tuples[n].args, tuples[n].kwargs)

\* results of the filter tuple the loop is at.
stage_results(records, r, opinion, tuples, n) ==
    filter(orig_query(records, r["AO ID"], opinion), tuples[n].args, tuples[n].kwargs)

TooMany == 5

\* decide, were 5 or more records a reason to broaden.
decide_broaden_too_many(count) ==
    IF count = 0 THEN "continue"
    ELSE IF count = 1 THEN "return first"
    ELSE IF TooMany > count /\ count > 1 THEN "return first"
    ELSE "continue"

\* decide, were no record a reason to give up.
decide_stop_on_zero(count) ==
    IF count = 0 THEN "return None"
    ELSE IF count = 1 THEN "return first"
    ELSE IF TooMany > count /\ count > 1 THEN "return first"
    ELSE "return None"

\* What one pass of the for loop does with count: "continue", "return first"
\* or "return None".
decide(count) ==
    IF count = 0 THEN "continue"
    ELSE IF count = 1 THEN "return first"
    ELSE IF TooMany > count /\ count > 1 THEN "return first"
    ELSE "return None"

decide_line(count) ==
    IF count = 0 THEN Line("warn", "Unable to find result. Broadening if possible.")
    ELSE IF count = 1 THEN Line("info", "Got one result. Bingo.")
    ELSE IF TooMany > count /\ count > 1
    THEN Line("info", "Got results. Choosing closest to document date.")
    ELSE Line("warn", "Got too many results. Cannot identify correct case.")

\* One pass of the for loop over filter_tuples: results.count() is a query,
\* results[0] another; after the last tuple the function returns None.
lookup_row_loop ==
    /\ pc = "loop"
    /\ LET results == stage_results(store, row, opinion_date, filter_tuples, stage)
           count == Cardinality(results)
           what == decide(count)
       IN  /\ log' = Append(log, decide_line(count))
           /\ IF what = "continue"
              THEN /\ queries' = Append(queries, Query(stage, "count"))
                   /\ result' = {}
                   /\ IF stage < Len(filter_tuples)
                      THEN stage' = stage + 1 /\ pc' = "loop"
                      ELSE stage' = stage /\ pc' = "returned"
              ELSE IF what = "return first"
              THEN /\ queries' = queries \o << Query(stage, "count"), Query(stage, "[0]") >>
                   /\ \E rec \in first_by_date_filed(results) : result' = {rec}
                   /\ stage' = stage
                   /\ pc' = "returned"
              ELSE /\ queries' = Append(queries, Query(stage, "count"))
                   /\ result' = {}
                   /\ stage' = stage
                   /\ pc' = "returned"
    /\ UNCHANGED <<task, store, row, plaintiff, defendant, opinion_date,
                   filter_tuples, exc, writer, docs_vars>>

\* -------------------------------------------------------------- filter_des

core_words == {
    <<"d","e","c","i","d","e","d">>, <<"d","e","c","i","s","i","o","n">>, <<"d","e","n","i","a","l">>, <<"d","e","n","i","e","d">>, <<"d","e","n","y","i","n","g">>, <<"e","n","t","e","r","e","d">>,
    <<"e","n","t","r","y">>, <<"f","i","n","d","i","n","g">>, <<"f","i","n","d","i","n","g","s">>, <<"g","r","a","n","t">>, <<"g","r","a","n","t","e","d">>, <<"g","r","a","n","t","i","n","g">>,
    <<"j","u","d","g","e">>, <<"m","a","g","i","s","t","r","a","t","e">>, <<"o","p","i","n","i","o","n">>, <<"o","r","d","e","r">>, <<"o","r","d","e","r","e","d"," ">>,
    <<"r","e","c","o","m","m","e","n","d","a","t","i","o","n">> }

prefix_words == { <<"a","m","e","n","d","e","d">>, <<"c","o","r","r","e","c","t","e","d">>, <<"f","i","n","a","l">>, <<"f","u","r","t","h","e","r">>,
                  <<"i","n","i","t","i","a","l">>, <<"m","o","d","i","f","i","e","d">>, <<"r","e","v","i","s","e","d">> }

pre_prefix_words == { <<"m","e","m","o","r","a","n","d","u","m">>, <<"r","e","p","o","r","t">> }

PACER_DOCUMENT == "PACER_DOCUMENT"
ATTACHMENT == "ATTACHMENT"

\* A RECAPDocument.
Rd(document_type, description, pacer_doc_id) ==
    [document_type |-> document_type, description |-> description,
     pacer_doc_id |-> pacer_doc_id]

\* A DocketEntry without its pk.
De(description, recap_documents) ==
    [description |-> description, recap_documents |-> recap_documents]

MainDoc == << Rd(PACER_DOCUMENT, <<>>, <<"0","4","5","1">>) >>

DocketEntries == {
    De(<<"O","r","d","e","r"," ","g","r","a","n","t","i","n","g"," ","m","o","t","i","o","n"," ","t","o"," ","d","i","s","m","i","s","s">>, MainDoc),
    De(<<"L","e","t","t","e","r"," ","f","r","o","m"," ","c","o","u","n","s","e","l">>, << Rd(PACER_DOCUMENT, <<>>, <<>>) >>),
    De(<<"A","m","e","n","d","e","d"," ","m","e","m","o","r","a","n","d","u","m"," ","o","p","i","n","i","o","n"," ","a","n","d"," ","o","r","d","e","r">>, MainDoc),
    De(<<"F","i","n","a","l"," ","R","e","p","o","r","t">>, MainDoc),
    De(<<"M","e","m","o","r","a","n","d","u","m">>, MainDoc),
    De(<<"A","m","e","n","d","e","d">>, MainDoc),
    De(<<"R","e","v","i","s","e","d"," ","r","e","p","o","r","t"," ","o","f"," ","t","h","e"," ","m","a","g","i","s","t","r","a","t","e">>, MainDoc),
    De(<<"R","e","p","o","r","t"," ","a","n","d"," ","R","e","c","o","m","m","e","n","d","a","t","i","o","n">>, MainDoc),
    De(<<"C","o","r","r","e","c","t","e","d"," ","R","e","p","o","r","t"," ","b","y"," ","J","u","d","g","e"," ","R","o","e">>, MainDoc),
    De(<<>>, << Rd(ATTACHMENT, <<"E","x","h","i","b","i","t">>, <<"0","4","5","2">>),
                Rd(PACER_DOCUMENT, <<"A","m","e","n","d","e","d"," ","O","r","d","e","r">>, <<"0","4","5","3">>) >>),
    De(<<>>, << Rd(ATTACHMENT, <<"O","r","d","e","r">>, <<"0","4","5","4">>) >>),
    De(<<>>, << Rd(PACER_DOCUMENT, <<"O","r","d","e","r">>, <<"0","4","5","5">>),
                Rd(PACER_DOCUMENT, <<"O","r","d","e","r">>, <<"0","4","5","6">>) >>),
    De(<<>>, << Rd(PACER_DOCUMENT, <<>>, <<"0","4","5","7">>) >>) }

\* The docket entries of one day, each with its pk.
DesOf(entries) ==
    [i \in 1..Len(entries) |->
        [pk |-> i, description |-> entries[i].description,
         recap_documents |-> entries[i].recap_documents]]

RECURSIVE SeqsUpTo(_, _)
SeqsUpTo(S, n) ==
    IF n = 0 THEN {<<>>}
    ELSE LET shorter == SeqsUpTo(S, n - 1)
         IN  shorter \cup {Append(q, x) : q \in shorter, x \in S}

DesChoices == {DesOf(entries) : entries \in SeqsUpTo(DocketEntries, MaxDes)}

\* de.recap_documents.filter(document_type=RECAPDocument.PACER_DOCUMENT)
pacer_documents(de) ==
    SelectSeq(de.recap_documents, LAMBDA rd : rd.document_type = PACER_DOCUMENT)

\* de.recap_documents.get(document_type=...): "" when exactly one document
\* matches, else the exception get raises.
get_raises(de) ==
    IF Len(pacer_documents(de)) = 0 THEN "DoesNotExist"
    ELSE IF Len(pacer_documents(de)) > 1 THEN "MultipleObjectsReturned"
    ELSE ""

\* desc before it is split, for an entry get does not raise on.
description_of(de) ==
    IF de.description = <<>>
    THEN pacer_documents(de)[1].description
    ELSE de.description

\* words[i] in vocabulary, for the 0-based i: "T", "F", or "E" for the
\* IndexError of an index past the end.
word_in(words, i, vocabulary) ==
    IF i >= Len(words) THEN "E"
    ELSE IF words[i + 1] \in vocabulary THEN "T" ELSE "F"

\* py_and, were both operands evaluated (a & b).
py_and_both(a, b) ==
    IF a = "E" \/ b = "E" THEN "E"
    ELSE IF a = "T" /\ b = "T" THEN "T" ELSE "F"

\* a and b, a or b: b is not evaluated when a decides.
py_and(a, b) == IF a = "T" THEN b ELSE a

py_or(a, b) == IF a = "F" THEN b ELSE a

\* The four items of the list given to any(), all evaluated before any()
\* is called.
rule_list(words) == <<
    word_in(words, 0, core_words),
    py_and(word_in(words, 0, prefix_words), word_in(words, 1, core_words)),
    py_and(word_in(words, 0, pre_prefix_words),
           py_or(word_in(words, 1, core_words), word_in(words, 2, core_words))),
    py_and(word_in(words, 0, prefix_words),
           py_and(word_in(words, 1, pre_prefix_words),
                  py_or(word_in(words, 2, core_words),
                        word_in(words, 3, core_words)))) >>

\* The body of the try for one entry's words: "append", "skip" (any() is
\* false) or "IndexError" (caught: continue).
try_rules(words) ==
    LET rules == rule_list(words)
    IN  IF \E i \in 1..Len(rules) : rules[i] = "E" THEN "IndexError"
        ELSE IF \E i \in 1..Len(rules) : rules[i] = "T" THEN "append"
        ELSE "skip"

\* good_des = []
filter_des_begin == <<>>

\* One pass of filter_des's for loop; after the last entry good_des is
\* returned to download_documents.
filter_des_loop ==
    /\ pc = "filter_des"
    /\ LET de == des[de_i]
           raised == IF de.description = <<>> THEN get_raises(de) ELSE ""
       IN  IF raised # ""
           THEN /\ exc' = raised
                /\ pc' = "raised"
                /\ UNCHANGED <<good_des, de_i>>
           ELSE /\ good_des' =
                      IF try_rules(split(lower(description_of(de)))) = "append"
                      THEN Append(good_des, de)
                      ELSE good_des
                /\ IF de_i < Len(des)
                   THEN de_i' = de_i + 1 /\ pc' = "filter_des"
                   ELSE de_i' = de_i /\ pc' = "download"
                /\ exc' = exc
    /\ UNCHANGED <<task, log, des, queued, lookup_vars>>

\* ------------------------------------------------------ download_documents

DocketOutcomes == {"no docket number", "Docket.MultipleObjectsReturned",
                   "Docket.DoesNotExist", "docket"}

\* What the row's own fields and the Docket table decide before the entries
\* are looked at: the warning logged before continue, if any.
docket_warning(outcome) ==
    IF outcome = "no docket number" THEN "No docket number found for row"
    ELSE IF outcome = "Docket.MultipleObjectsReturned"
    THEN "Multiple objects returned for row"
    ELSE IF outcome = "Docket.DoesNotExist" THEN "Could not find docket for row"
    ELSE ""

\* one_entry, were the rules applied to the single entry too.
one_entry_filtered(entries) ==
    SelectSeq(entries, LAMBDA de : try_rules(split(lower(de.description))) = "append")

\* elif des.count() == 1: good_des = [des[0]]
one_entry(entries) == << entries[1] >>

\* for i, row in enumerate(reader): one row up to good_des: the docket is
\* looked up, the row's date parsed, the day's entries counted, and
\* filter_des called when there are several.
download_documents_read_row ==
    /\ task \in {"download_documents", "add_extra_tags"}
    /\ pc = "reader"
    /\ queued' = {}
    /\ \E outcome \in DocketOutcomes :
        IF docket_warning(outcome) # ""
        THEN /\ log' = << Line("info", "Doing row"), Line("warn", docket_warning(outcome)) >>
             /\ pc' = "reader"
             /\ UNCHANGED <<des, de_i, good_des, exc>>
        ELSE \E date \in {GoodDate, BadDate} :
            IF ~strptime_ok(date)
            THEN /\ log' = << Line("info", "Doing row") >>
                 /\ exc' = "ValueError"
                 /\ pc' = "raised"
                 /\ UNCHANGED <<des, de_i, good_des>>
            ELSE \E entries \in DesChoices :
                /\ exc' = exc
                /\ IF Len(entries) = 0
                   THEN /\ log' = << Line("info", "Doing row"),
                                     Line("warn", "No docket entries found for row") >>
                        /\ pc' = "reader"
                        /\ UNCHANGED <<des, de_i, good_des>>
                   ELSE IF Len(entries) = 1
                   THEN /\ log' = << Line("info", "Doing row") >>
                        /\ des' = entries
                        /\ good_des' = one_entry(entries)
                        /\ de_i' = 0
                        /\ pc' = "download"
                   ELSE /\ log' = << Line("info", "Doing row") >>
                        /\ des' = entries
                        /\ good_des' = filter_des_begin
                        /\ de_i' = 1
                        /\ pc' = "filter_des"
    /\ UNCHANGED <<task, lookup_vars>>

\* The PACER documents of the entries of good, each as <<entry pk, place
\* among the entry's documents>>.
pacer_rds(good) ==
    UNION {{<<good[i].pk, j>> :
                j \in {k \in 1..Len(good[i].recap_documents) :
                          good[i].recap_documents[k].document_type = PACER_DOCUMENT}} :
            i \in 1..Len(good)}

rd_at(good, x) ==
    (CHOOSE de \in {good[i] : i \in 1..Len(good)} : de.pk = x[1]).recap_documents[x[2]]

\* We've got our des, now download them: the two for loops over good_des
\* and its PACER documents. One without a pacer_doc_id is warned about and
\* passed over; the others are tagged (add_extra_tags) or their download is
\* queued. Then the next row.
download_documents_download ==
    /\ pc = "download"
    /\ queued' = {x \in pacer_rds(good_des) : rd_at(good_des, x).pacer_doc_id # <<>>}
    /\ log' = IF \E x \in pacer_rds(good_des) : rd_at(good_des, x).pacer_doc_id = <<>>
              THEN Append(log, Line("warn", "Unable to get pacer_doc_id for item"))
              ELSE log
    /\ des' = <<>>
    /\ de_i' = 0
    /\ good_des' = <<>>
    /\ pc' = "reader"
    /\ UNCHANGED <<task, exc, lookup_vars>>

\* The file has no more rows.
download_documents_end_of_file ==
    /\ task \in {"download_documents", "add_extra_tags"}
    /\ pc = "reader"
    /\ pc' = "done"
    /\ UNCHANGED <<task, log, exc, lookup_vars, docs_vars>>

\* --------------------------------------------------------- specifications

Init ==
    /\ task = "lookup_in_idb"
    /\ store \in Stores
    /\ pc = "reader"
    /\ row = NoRow
    /\ plaintiff = <<>>
    /\ defendant = <<>>
    /\ opinion_date = NoDate
    /\ filter_tuples = <<>>
    /\ stage = 0
    /\ queries = <<>>
    /\ log = <<>>
    /\ result = {}
    /\ exc = ""
    /\ writer = {}
    /\ des = <<>>
    /\ de_i = 0
    /\ good_des = <<>>
    /\ queued = {}

Next ==
    \/ update_csv_read_row
    \/ lookup_row
    \/ lookup_row_loop
    \/ update_csv_write_row
    \/ update_csv_end_of_file

\* The command run with --task lookup_in_idb.
Spec == Init /\ [][Next]_vars

InitDocuments ==
    /\ task \in {"download_documents", "add_extra_tags"}
    /\ store = {}
    /\ pc = "reader"
    /\ row = NoRow
    /\ plaintiff = <<>>
    /\ defendant = <<>>
    /\ opinion_date = NoDate
    /\ filter_tuples = <<>>
    /\ stage = 0
    /\ queries = <<>>
    /\ log = <<>>
    /\ result = {}
    /\ exc = ""
    /\ writer = {}
    /\ des = <<>>
    /\ de_i = 0
    /\ good_des = <<>>
    /\ queued = {}

NextDocuments ==
    \/ download_documents_read_row
    \/ filter_des_loop
    \/ download_documents_download
    \/ download_documents_end_of_file

\* The command run with --task download_documents or add_extra_tags.
SpecDocuments == InitDocuments /\ [][NextDocuments]_vars

\* ------------------------------------------------- properties: lookup_row

\* lookup_row is in or past its for loop for the row.
InStages == pc \in {"loop", "returned"} /\ filter_tuples # <<>>

\* lookup_row has returned from inside or after its for loop.
StagesDone == pc = "returned" /\ filter_tuples # <<>>

\* The number of records the n-th stage's filter finds for the row.
StageCount(n) ==
    Cardinality(stage_results(store, row, opinion_date, filter_tuples, n))

NonZeroStages == {n \in 1..Len(filter_tuples) : StageCount(n) # 0}

FirstNonZero == MinOf(NonZeroStages)

QueriedStages == {queries[i].stage : i \in 1..Len(queries)}

\* How many times sep occurs in s, counted from the left without overlap.
Occurrences(s, sep) == Len(split_sep(s, sep, -1)) - 1

Separators == Occurrences(lower(row["Case Name"]), <<" ","v","."," ">>)

Logged(message) == \E i \in 1..Len(log) : log[i].message = message

\* C1: when the first stage with a non-zero count has a count of 5 or more,
\* no stage after it is ever queried and lookup_row returns None.
C1_AmbiguousStops ==
    (InStages /\ NonZeroStages # {} /\ StageCount(FirstNonZero) >= 5)
        => /\ \A n \in QueriedStages : n <= FirstNonZero
           /\ pc = "returned" => result = {}

\* C1's case: None returned at a stage of 5 or more records, before the last
\* stage, which would have found records too.
C1_Witness ==
    /\ StagesDone
    /\ NonZeroStages # {}
    /\ StageCount(FirstNonZero) >= 5
    /\ FirstNonZero < Len(filter_tuples)
    /\ StageCount(Len(filter_tuples)) # 0
    /\ result = {}

\* C2: a case name with no " v. " or with two or more is answered None with
\* one of the two warnings of the split, and no query is sent to the store.
C2_MalformedNoQuery ==
    (pc \in {"loop", "returned"} /\ Separators # 1)
        => /\ queries = <<>>
           /\ pc = "returned" =>
                /\ result = {}
                /\ \/ Logged("Unable to find ' v. ' in case name.")
                   \/ Logged("Got multiple ' v. ' in the case name.")

\* The records of the candidate pool whose plaintiff and defendant equal,
\* case-insensitively, the first 30 characters of the row's.
FirstThirty(s) == IF Len(s) > 30 THEN SubSeq(s, 1, 30) ELSE s

ExactMatchesOfRow ==
    {rec \in orig_query(store, row["AO ID"], opinion_date) :
        /\ lower(rec.plaintiff) = FirstThirty(plaintiff)
        /\ lower(rec.defendant) = FirstThirty(defendant)}

\* C3: when exactly one record of the candidate pool matches stage 1, that
\* record is what lookup_row returns.
C3_ExactOneReturned ==
    (StagesDone /\ Cardinality(ExactMatchesOfRow) = 1) => result = ExactMatchesOfRow

\* C3's case: the one exact match returned although a later stage finds
\* several records.
C3_Witness ==
    /\ StagesDone
    /\ Cardinality(ExactMatchesOfRow) = 1
    /\ result = ExactMatchesOfRow
    /\ \E n \in 2..Len(filter_tuples) : StageCount(n) > 1

FirstNonZeroResults ==
    stage_results(store, row, opinion_date, filter_tuples, FirstNonZero)

\* C4: when the first stage with a non-zero count finds 2, 3 or 4 records,
\* lookup_row returns one of them, and none of them was filed after it.
C4_MostRecentReturned ==
    (StagesDone /\ NonZeroStages # {}
        /\ StageCount(FirstNonZero) > 1 /\ StageCount(FirstNonZero) < 5)
        => \E rec \in FirstNonZeroResults :
            /\ result = {rec}
            /\ \A other \in FirstNonZeroResults :
                toordinal(other.date_filed) <= toordinal(rec.date_filed)

\* C4's case: 2 to 4 records found, not all filed the same day.
C4_Witness ==
    /\ StagesDone
    /\ NonZeroStages # {}
    /\ StageCount(FirstNonZero) \in 2..4
    /\ result # {}
    /\ \E a, b \in FirstNonZeroResults :
        toordinal(a.date_filed) < toordinal(b.date_filed)

\* The test the claim gives one token of the query on one field of a
\* record: the token or one of its expansions occurs in the field, case
\* aside, when the token ends with a period and is a key of the table; else
\* the token occurs in it.
TokenTest(field, token) ==
    IF token[Len(token)] = "." /\ lower(token) \in AbbreviationKeys
    THEN \/ contains(lower(field), lower(token))
         \/ \E i \in 1..Len(CASE_NAME_IABBREVIATIONS(token)) :
                contains(lower(field), lower(CASE_NAME_IABBREVIATIONS(token)[i]))
    ELSE contains(lower(field), lower(token))

\* The tokens first..last (from 1) of a party, as many as there are.
Tokens(party, first, last) ==
    LET words == split(party)
    IN  {words[i] : i \in {j \in first..last : j <= Len(words)}}

AllFjcRecords == SingleRecords \cup OutsideRecords \cup {CopyRecord(i) : i \in 1..MaxCopies}

C8_AllZeroNoMatch ==
    (StagesDone /\ NonZeroStages = {})
        => /\ result = {}
           /\ queries = [n \in 1..5 |-> Query(n, "count")]

\* C8's case: None returned for a row none of whose stages finds a record,
\* from a store that holds records.
C8_Witness ==
    /\ StagesDone
    /\ NonZeroStages = {}
    /\ orig_query(store, row["AO ID"], opinion_date) # {}
    /\ result = {}

\* C9: of the two warnings of the split, "Unable to find" is logged exactly
\* for a case name without " v. ", and "Got multiple" exactly for one with
\* two or more.
C9_ReasonLogged ==
    (pc = "returned")
        => /\ Logged("Unable to find ' v. ' in case name.") <=> Separators = 0
           /\ Logged("Got multiple ' v. ' in the case name.") <=> Separators >= 2

\* ------------------------------------------------- properties: filter_des

\* token[i] of the claim's rules, for the 0-based i: in the vocabulary, and
\* false when the words end before it.
TokenIn(words, i, vocabulary) == i < Len(words) /\ words[i + 1] \in vocabulary

\* One of the four positional rules holds of the words.
RulingWords(words) ==
    \/ TokenIn(words, 0, core_words)
    \/ TokenIn(words, 0, prefix_words) /\ TokenIn(words, 1, core_words)
    \/ /\ TokenIn(words, 0, pre_prefix_words)
       /\ TokenIn(words, 1, core_words) \/ TokenIn(words, 2, core_words)
    \/ /\ TokenIn(words, 0, prefix_words)
       /\ TokenIn(words, 1, pre_prefix_words)
       /\ TokenIn(words, 2, core_words) \/ TokenIn(words, 3, core_words)

WordsOf(de) == split(lower(description_of(de)))

\* filter_des has returned good_des for the two or more entries of des.
FilterDesReturned == pc = "download" /\ Len(des) >= 2

\* C5: what filter_des returns for two or more entries is the entries, in
\* the order given, of whose words one of the four rules holds.
C5_RulingEntriesInOrder ==
    FilterDesReturned
        => good_des = SelectSeq(des, LAMBDA de : RulingWords(WordsOf(de)))

\* C5's case: an entry of fewer than four words kept, beside an entry whose
\* words end before an index a rule reads.
C5_Witness ==
    /\ FilterDesReturned
    /\ \E i \in 1..Len(good_des) : Len(WordsOf(good_des[i])) < 4
    /\ \E i \in 1..Len(des) : try_rules(WordsOf(des[i])) = "IndexError"
    /\ Len(good_des) >= 2

\* C6: a single entry on the row's day is kept whatever its description.
C6_SingleEntryKept ==
    (pc = "download" /\ Len(des) = 1) => good_des = des

\* C6's case: the single entry has no description and no PACER document to
\* take one from.
C6_Witness ==
    /\ pc = "download"
    /\ Len(des) = 1
    /\ good_des = des
    /\ des[1].description = <<>>
    /\ get_raises(des[1]) = "DoesNotExist"

\* C10: filter_des never ends the command with an exception: an entry that
\* cannot be resolved is passed over.
C10_FilterDesNeverRaises == ~(pc = "raised" /\ de_i > 0)

\* ------------------------------------------ properties: the short slices

\* The party's words do not fill the slice stage n takes of them: fewer than
\* three words at stage 3, no word at stage 4, no second word of the
\* plaintiff or no word of the defendant at stage 5.
ShortAt(n) ==
    IF n = 3 THEN Len(split(plaintiff)) < 3 \/ Len(split(defendant)) < 3
    ELSE IF n = 4 THEN Len(split(plaintiff)) < 1 \/ Len(split(defendant)) < 1
    ELSE IF n = 5 THEN Len(split(plaintiff)) < 2 \/ Len(split(defendant)) < 1
    ELSE FALSE

\* The words stage n takes of the plaintiff and of the defendant, as many
\* as there are.
PlaintiffTokens(n) ==
    IF n = 3 THEN Tokens(plaintiff, 1, 3)
    ELSE IF n = 4 THEN Tokens(plaintiff, 1, 1)
    ELSE Tokens(plaintiff, 2, 2)

DefendantTokens(n) ==
    IF n = 3 THEN Tokens(defendant, 1, 3) ELSE Tokens(defendant, 1, 1)

\* The records of the candidate pool that pass the test of every word stage
\* n has of each party; a party with no word is not tested.
TokenMatches(n) ==
    {rec \in orig_query(store, row["AO ID"], opinion_date) :
        /\ \A t \in PlaintiffTokens(n) : TokenTest(rec.plaintiff, t)
        /\ \A t \in DefendantTokens(n) : TokenTest(rec.defendant, t)}

LastQueried == queries[Len(queries)].stage

\* C11 as stated: a token-set stage whose slice the words do not fill is
\* passed over as if its count were 0: lookup_row never returns at it, save
\* with None after the last stage.
C11_ShortStageSkipped ==
    (StagesDone /\ ShortAt(stage)) => (stage = Len(filter_tuples) /\ result = {})

\* C11 as amended: short slices raise nothing (lookup_row ends the command
\* only on a date strptime refuses), and a token-set stage whose slice the
\* words do not fill is decided like any other, on the records passing the
\* tests of the words there are.
C11_ShortStageDecides ==
    /\ pc = "raised" => ~strptime_ok(row["Date"])
    /\ (InStages /\ queries # <<>> /\ ShortAt(LastQueried))
        => /\ log[Len(log)] = decide_line(Cardinality(TokenMatches(LastQueried)))
           /\ (pc = "returned" /\ Cardinality(TokenMatches(LastQueried)) \in 1..4)
                => result # {} /\ result \subseteq TokenMatches(LastQueried)

\* C11's case: stage 5 returns a record for a one-word plaintiff, a record
\* whose plaintiff does not hold that word.
C11_Witness ==
    /\ StagesDone
    /\ stage = 5
    /\ Len(split(plaintiff)) = 1
    /\ \E rec \in result : ~contains(lower(rec.plaintiff), plaintiff)

\* --------------------------------------- properties: the pool of a stage

\* The records of the original candidate pool that pass stage k's predicate.
OriginalPoolMatches(k) ==
    filter(orig_query(store, row["AO ID"], opinion_date),
           filter_tuples[k].args, filter_tuples[k].kwargs)

\* The records left when stage k's predicate is applied to what stages
\* 1..k-1 left of the candidate pool.
RECURSIVE NarrowedPoolMatches(_)
NarrowedPoolMatches(k) ==
    filter(IF k = 1 THEN orig_query(store, row["AO ID"], opinion_date)
           ELSE NarrowedPoolMatches(k - 1),
           filter_tuples[k].args, filter_tuples[k].kwargs)

\* A stage has been queried for the row and its count decided upon.
StageDecided == InStages /\ queries # <<>>

\* C12 as stated: the records counted at a stage are those its predicate
\* leaves of the pool the preceding stages left: the line logged for the
\* count, and a record returned, are those of that narrowed set.
C12_StageNarrowsCurrentPool ==
    StageDecided
        => /\ log[Len(log)] = decide_line(Cardinality(NarrowedPoolMatches(LastQueried)))
           /\ result \subseteq NarrowedPoolMatches(LastQueried)

\* C12 as amended: the records counted at every stage are those its
\* predicate leaves of the original candidate pool, whatever the preceding
\* stages found: the line logged for the count, and a record returned, are
\* those of that set.
C12_StageFiltersOriginalPool ==
    StageDecided
        => /\ log[Len(log)] = decide_line(Cardinality(OriginalPoolMatches(LastQueried)))
           /\ result \subseteq OriginalPoolMatches(LastQueried)
           /\ (pc = "returned" /\ Cardinality(OriginalPoolMatches(LastQueried)) \in 1..4)
                => result # {}

\* C12's case: a stage after the first returns a record, one the stages
\* before it had not left in the pool.
C12_Witness ==
    /\ StagesDone
    /\ stage > 1
    /\ result # {}
    /\ result \subseteq OriginalPoolMatches(stage)
    /\ NarrowedPoolMatches(stage) = {}

====
